---- MODULE Spec2Model ----
(***************************************************************************)
(* Model of examples/python/RVC2/RecordReplay/holistic_replay.py: the      *)
(* command line parse, the pipeline set-up, and the replay loop that pulls *)
(* one ImgFrame and one IMUData per iteration, shows the frame, prints the *)
(* IMU packets and polls the keyboard.  The pipeline (producer side of the *)
(* two output queues, isRunning) and the HighGUI key buffer are the        *)
(* environment.                                                            *)
(***************************************************************************)
EXTENDS Integers, Sequences, FiniteSets, TLC

\* ---------------------------------------------------------------- bounds
MaxFrames  == 2   \* messages the recording holds per stream
MaxPackets == 2   \* packets in one IMUData message
QueueSize  == 1   \* capacity of an output queue
MaxWait    == 3   \* cap of the clock that measures one waitKey call
MaxArgs    == 2   \* command line tokens

\* ------------------------------------------------------- program constants
DefaultSourceTypo == "recording.tar.gz"
DefaultSource == "recordings/recording.tar.gz"
OptionStrings == {"-s", "--source"}
WindowName    == "video"
OrdQ          == 113          \* ord('q')
NoKey         == -1           \* cv2.waitKey: no key within the delay
Unset         == "<unset>"

WaitKeyDelayForever == 1 - 1   \* waitKey(0): wait for a key
WaitKeyDelay == 1

\* --------------------------------------------------------- input domains
OptionLike == {"-s", "--source", "-x"}          \* tokens that start with '-'
Tokens     == OptionLike \cup {"other.tar.gz"}
Argvs      == UNION {[1..n -> Tokens] : n \in 0..MaxArgs}
KeyPresses == {OrdQ, 97}
PacketAt(i) == [acceleroMeter |-> 2 * i - 1, gyroscope |-> 2 * i]
Ascending(n)  == [i \in 1..n |-> PacketAt(i)]
Descending(n) == [i \in 1..n |-> PacketAt(n + 1 - i)]
Batches    == {Ascending(n) : n \in 0..MaxPackets}
                \cup {Descending(n) : n \in 0..MaxPackets}
NoFrame    == [seq |-> 0, type |-> "none"]
NoData     == [packets |-> <<>>]

VARIABLES
  pc,            \* position of the script
  argv,          \* sys.argv[1:]
  source,        \* args.source
  replaySource,  \* path handed to pipeline.enableHolisticReplay
  enableCalls,   \* calls of enableHolisticReplay
  camRgb, imu,   \* node configuration
  videoQueueCreated, imuQueueCreated,
  startCalls,    \* calls of pipeline.start
  running,       \* pipeline.isRunning()
  videoQ, imuQ,  \* contents of the two output queues
  videoIn, imuData, packetIdx, key,   \* locals of the loop
  window,        \* images shown, in order
  stdout,        \* lines printed, in order
  pendingKey,    \* key waiting in the HighGUI event buffer
  waited,        \* time spent in the current waitKey call
  videoArrived, imuArrived,  \* history: everything put in each queue
  videoTaken, imuTaken,      \* history: everything get() returned
  runningChecks, polls, iterations, mark, failed   \* history

vars == <<pc, argv, source, replaySource, enableCalls, camRgb, imu,
          videoQueueCreated, imuQueueCreated, startCalls, running,
          videoQ, imuQ, videoIn, imuData, packetIdx, key, window, stdout,
          pendingKey, waited, videoArrived, imuArrived, videoTaken,
          imuTaken, runningChecks, polls, iterations, mark, failed>>

setupVars == <<source, replaySource, enableCalls, camRgb, imu,
               videoQueueCreated, imuQueueCreated, startCalls>>
envVars   == <<running, videoQ, imuQ, pendingKey, videoArrived, imuArrived>>
loopVars  == <<videoIn, imuData, packetIdx, key, window, stdout, waited,
               videoTaken, imuTaken, runningChecks, polls, iterations, mark>>

\* ------------------------------------------------------------- argparse
DefaultNamespace == [ok |-> TRUE, source |-> DefaultSource]

RECURSIVE ParseKnown(_, _)
ParseKnown(args, ns) ==
  IF args = <<>> THEN ns
  ELSE IF Head(args) \in OptionStrings
       THEN IF Len(args) >= 2 /\ args[2] \notin OptionLike
            THEN ParseKnown(SubSeq(args, 3, Len(args)),
                            [ns EXCEPT !.source = args[2]])
            ELSE [ok |-> FALSE, source |-> Unset]   \* expected one argument
       ELSE [ok |-> FALSE, source |-> Unset]        \* unrecognized arguments

ParseArgs(args) == ParseKnown(args, DefaultNamespace)

\* ------------------------------------------------------- pure helpers
GetCvFrame(f) == [seq |-> f.seq, type |-> "BGR"]

AccelLine(p) == [label |-> "IMU Accelerometer: ", value |-> p.acceleroMeter]

GyroLineCopyPaste(p) == [label |-> "IMU Gyroscope: ", value |-> p.acceleroMeter]
GyroLine(p) == [label |-> "IMU Gyroscope: ", value |-> p.gyroscope]

IsQuitUpper(k) == k = 81
IsQuit(k) == k = OrdQ

UncaughtRetry == "check"
Uncaught == "crashed"

\* blocking FIFO output queue
QueuePut(q, m) == Append(q, m)
QueueFront(q)  == Head(q)
QueuePop(q)    == Tail(q)

\* ----------------------------------------------- statement order
SuccImuFirst(p) ==
  CASE p = "parse"      -> "pipeline"
    [] p = "pipeline"   -> "camRgb"
    [] p = "camRgb"     -> "imu"
    [] p = "imu"        -> "replay"
    [] p = "replay"     -> "videoQueue"
    [] p = "videoQueue" -> "imuQueue"
    [] p = "imuQueue"   -> "start"
    [] p = "start"      -> "check"
    [] p = "check"      -> "getImu"
    [] p = "getImu"     -> "getVideo"
    [] p = "getVideo"   -> "imshow"
    [] p = "imshow"     -> "for"
    [] p = "for"        -> "waitKey"
    [] p = "printAcc"   -> "printGyro"
    [] p = "printGyro"  -> "for"
    [] p = "waitKey"    -> "check"
    [] OTHER            -> p
SuccPollFirst(p) ==
  CASE p = "parse"      -> "pipeline"
    [] p = "pipeline"   -> "camRgb"
    [] p = "camRgb"     -> "imu"
    [] p = "imu"        -> "replay"
    [] p = "replay"     -> "videoQueue"
    [] p = "videoQueue" -> "imuQueue"
    [] p = "imuQueue"   -> "start"
    [] p = "start"      -> "check"
    [] p = "check"      -> "getVideo"
    [] p = "getVideo"   -> "getImu"
    [] p = "getImu"     -> "waitKey"
    [] p = "waitKey"    -> "imshow"
    [] p = "imshow"     -> "for"
    [] p = "for"        -> "check"
    [] p = "printAcc"   -> "printGyro"
    [] p = "printGyro"  -> "for"
    [] OTHER            -> p
SuccStartEarly(p) ==
  CASE p = "parse"      -> "pipeline"
    [] p = "pipeline"   -> "camRgb"
    [] p = "camRgb"     -> "imu"
    [] p = "imu"        -> "start"
    [] p = "start"      -> "replay"
    [] p = "replay"     -> "videoQueue"
    [] p = "videoQueue" -> "imuQueue"
    [] p = "imuQueue"   -> "check"
    [] p = "check"      -> "getVideo"
    [] p = "getVideo"   -> "getImu"
    [] p = "getImu"     -> "imshow"
    [] p = "imshow"     -> "for"
    [] p = "for"        -> "waitKey"
    [] p = "printAcc"   -> "printGyro"
    [] p = "printGyro"  -> "for"
    [] p = "waitKey"    -> "check"
    [] OTHER            -> p
Succ(p) ==
  CASE p = "parse"      -> "pipeline"
    [] p = "pipeline"   -> "camRgb"
    [] p = "camRgb"     -> "imu"
    [] p = "imu"        -> "replay"
    [] p = "replay"     -> "videoQueue"
    [] p = "videoQueue" -> "imuQueue"
    [] p = "imuQueue"   -> "start"
    [] p = "start"      -> "check"
    [] p = "check"      -> "getVideo"
    [] p = "getVideo"   -> "getImu"
    [] p = "getImu"     -> "imshow"
    [] p = "imshow"     -> "for"
    [] p = "for"        -> "waitKey"     \* iterator exhausted
    [] p = "printAcc"   -> "printGyro"
    [] p = "printGyro"  -> "for"
    [] p = "waitKey"    -> "check"
    [] OTHER            -> p

Alive == pc \notin {"exited", "crashed", "usage"}

\* ------------------------------------------------------------------ Init
Init ==
  /\ pc = "parse"
  /\ argv \in Argvs
  /\ source = Unset
  /\ replaySource = Unset
  /\ enableCalls = 0
  /\ camRgb = [created |-> FALSE]
  /\ imu = [created |-> FALSE]
  /\ videoQueueCreated = FALSE
  /\ imuQueueCreated = FALSE
  /\ startCalls = 0
  /\ running = FALSE
  /\ videoQ = <<>>
  /\ imuQ = <<>>
  /\ videoIn = NoFrame
  /\ imuData = NoData
  /\ packetIdx = 0
  /\ key = NoKey
  /\ window = <<>>
  /\ stdout = <<>>
  /\ pendingKey = NoKey
  /\ waited = 0
  /\ videoArrived = <<>>
  /\ imuArrived = <<>>
  /\ videoTaken = <<>>
  /\ imuTaken = <<>>
  /\ runningChecks = 0
  /\ polls = 0
  /\ iterations = 0
  /\ mark = 0
  /\ failed = FALSE

\* --------------------------------------------------------------- set-up
Parse ==
  /\ pc = "parse"
  /\ LET ns == ParseArgs(argv) IN
       IF ns.ok
       THEN /\ source' = ns.source
            /\ pc' = Succ("parse")
       ELSE /\ source' = source
            /\ pc' = "usage"
  /\ UNCHANGED <<argv, replaySource, enableCalls, camRgb, imu,
                 videoQueueCreated, imuQueueCreated, startCalls, failed>>
  /\ UNCHANGED envVars
  /\ UNCHANGED loopVars

CreatePipeline ==
  /\ pc = "pipeline"
  /\ pc' = Succ("pipeline")
  /\ UNCHANGED <<argv, failed>>
  /\ UNCHANGED setupVars
  /\ UNCHANGED envVars
  /\ UNCHANGED loopVars

CreateCamera ==
  /\ pc = "camRgb"
  /\ camRgb' = [created |-> TRUE, socket |-> "CAM_A",
                resolution |-> "THE_1080_P", videoSize |-> <<1920, 1080>>,
                fps |-> 30]
  /\ pc' = Succ("camRgb")
  /\ UNCHANGED <<argv, failed, source, replaySource, enableCalls, imu,
                 videoQueueCreated, imuQueueCreated, startCalls>>
  /\ UNCHANGED envVars
  /\ UNCHANGED loopVars

CreateImu ==
  /\ pc = "imu"
  /\ imu' = [created |-> TRUE,
             sensors |-> {<<"ACCELEROMETER_RAW", 500>>, <<"GYROSCOPE_RAW", 400>>}]
  /\ pc' = Succ("imu")
  /\ UNCHANGED <<argv, failed, source, replaySource, enableCalls, camRgb,
                 videoQueueCreated, imuQueueCreated, startCalls>>
  /\ UNCHANGED envVars
  /\ UNCHANGED loopVars

EnableHolisticReplay ==
  /\ pc = "replay"
  /\ replaySource' = source
  /\ enableCalls' = enableCalls + 1
  /\ pc' = Succ("replay")
  /\ UNCHANGED <<argv, failed, source, camRgb, imu,
                 videoQueueCreated, imuQueueCreated, startCalls>>
  /\ UNCHANGED envVars
  /\ UNCHANGED loopVars

CreateVideoQueue ==
  /\ pc = "videoQueue"
  /\ videoQueueCreated' = TRUE
  /\ pc' = Succ("videoQueue")
  /\ UNCHANGED <<argv, failed, source, replaySource, enableCalls, camRgb, imu,
                 imuQueueCreated, startCalls>>
  /\ UNCHANGED envVars
  /\ UNCHANGED loopVars

CreateImuQueue ==
  /\ pc = "imuQueue"
  /\ imuQueueCreated' = TRUE
  /\ pc' = Succ("imuQueue")
  /\ UNCHANGED <<argv, failed, source, replaySource, enableCalls, camRgb, imu,
                 videoQueueCreated, startCalls>>
  /\ UNCHANGED envVars
  /\ UNCHANGED loopVars

Start ==
  /\ pc = "start"
  /\ startCalls' = startCalls + 1
  /\ running' = TRUE
  /\ pc' = Succ("start")
  /\ UNCHANGED <<argv, failed, source, replaySource, enableCalls, camRgb, imu,
                 videoQueueCreated, imuQueueCreated>>
  /\ UNCHANGED <<videoQ, imuQ, pendingKey, videoArrived, imuArrived>>
  /\ UNCHANGED loopVars

\* start() raises: missing replay file, malformed recording
StartFail ==
  /\ pc = "start"
  /\ startCalls' = startCalls + 1
  /\ failed' = TRUE
  /\ pc' = Uncaught
  /\ UNCHANGED <<argv, source, replaySource, enableCalls, camRgb, imu,
                 videoQueueCreated, imuQueueCreated>>
  /\ UNCHANGED envVars
  /\ UNCHANGED loopVars

\* ------------------------------------------------------------- the loop
LoopCheck ==
  /\ pc = "check"
  /\ runningChecks' = runningChecks + 1
  /\ pc' = IF running THEN Succ("check") ELSE "exited"
  /\ UNCHANGED <<argv, failed>>
  /\ UNCHANGED setupVars
  /\ UNCHANGED envVars
  /\ UNCHANGED <<videoIn, imuData, packetIdx, key, window, stdout, waited,
                 videoTaken, imuTaken, polls, iterations, mark>>

GetVideoPeek ==
  /\ pc = "getVideo"
  /\ videoQ # <<>>
  /\ videoIn' = QueueFront(videoQ)
  /\ videoTaken' = Append(videoTaken, QueueFront(videoQ))
  /\ pc' = Succ("getVideo")
  /\ UNCHANGED <<argv, failed>>
  /\ UNCHANGED setupVars
  /\ UNCHANGED envVars
  /\ UNCHANGED <<imuData, packetIdx, key, window, stdout, waited,
                 imuTaken, runningChecks, polls, iterations, mark>>
GetVideo ==
  /\ pc = "getVideo"
  /\ videoQ # <<>>
  /\ videoIn' = QueueFront(videoQ)
  /\ videoQ' = QueuePop(videoQ)
  /\ videoTaken' = Append(videoTaken, QueueFront(videoQ))
  /\ pc' = Succ("getVideo")
  /\ UNCHANGED <<argv, failed>>
  /\ UNCHANGED setupVars
  /\ UNCHANGED <<running, imuQ, pendingKey, videoArrived, imuArrived>>
  /\ UNCHANGED <<imuData, packetIdx, key, window, stdout, waited,
                 imuTaken, runningChecks, polls, iterations, mark>>

GetImuTryGet ==
  /\ pc = "getImu"
  /\ IF imuQ # <<>>
     THEN /\ imuData' = [packets |-> QueueFront(imuQ)]
          /\ imuQ' = QueuePop(imuQ)
          /\ imuTaken' = Append(imuTaken, QueueFront(imuQ))
     ELSE /\ imuData' = NoData
          /\ UNCHANGED <<imuQ, imuTaken>>
  /\ mark' = Len(stdout)
  /\ pc' = Succ("getImu")
  /\ UNCHANGED <<argv, failed>>
  /\ UNCHANGED setupVars
  /\ UNCHANGED <<running, videoQ, pendingKey, videoArrived, imuArrived>>
  /\ UNCHANGED <<videoIn, packetIdx, key, window, stdout, waited,
                 videoTaken, runningChecks, polls, iterations>>
GetImu ==
  /\ pc = "getImu"
  /\ imuQ # <<>>
  /\ imuData' = [packets |-> QueueFront(imuQ)]
  /\ imuQ' = QueuePop(imuQ)
  /\ imuTaken' = Append(imuTaken, QueueFront(imuQ))
  /\ mark' = Len(stdout)
  /\ pc' = Succ("getImu")
  /\ UNCHANGED <<argv, failed>>
  /\ UNCHANGED setupVars
  /\ UNCHANGED <<running, videoQ, pendingKey, videoArrived, imuArrived>>
  /\ UNCHANGED <<videoIn, packetIdx, key, window, stdout, waited,
                 videoTaken, runningChecks, polls, iterations>>

ImShow ==
  /\ pc = "imshow"
  /\ window' = Append(window, [name |-> WindowName, image |-> GetCvFrame(videoIn)])
  /\ packetIdx' = 0
  /\ pc' = Succ("imshow")
  /\ UNCHANGED <<argv, failed>>
  /\ UNCHANGED setupVars
  /\ UNCHANGED envVars
  /\ UNCHANGED <<videoIn, imuData, key, stdout, waited,
                 videoTaken, imuTaken, runningChecks, polls, iterations, mark>>

\* for packet in imuData.packets: next element, or leave the loop
ForNext ==
  /\ pc = "for"
  /\ IF packetIdx < Len(imuData.packets)
     THEN /\ packetIdx' = packetIdx + 1
          /\ pc' = "printAcc"
     ELSE /\ packetIdx' = packetIdx
          /\ pc' = Succ("for")
  /\ UNCHANGED <<argv, failed>>
  /\ UNCHANGED setupVars
  /\ UNCHANGED envVars
  /\ UNCHANGED <<videoIn, imuData, key, window, stdout, waited,
                 videoTaken, imuTaken, runningChecks, polls, iterations, mark>>

PrintAccel ==
  /\ pc = "printAcc"
  /\ stdout' = Append(stdout, AccelLine(imuData.packets[packetIdx]))
  /\ pc' = Succ("printAcc")
  /\ UNCHANGED <<argv, failed>>
  /\ UNCHANGED setupVars
  /\ UNCHANGED envVars
  /\ UNCHANGED <<videoIn, imuData, packetIdx, key, window, waited,
                 videoTaken, imuTaken, runningChecks, polls, iterations, mark>>

PrintGyro ==
  /\ pc = "printGyro"
  /\ stdout' = Append(stdout, GyroLine(imuData.packets[packetIdx]))
  /\ pc' = Succ("printGyro")
  /\ UNCHANGED <<argv, failed>>
  /\ UNCHANGED setupVars
  /\ UNCHANGED envVars
  /\ UNCHANGED <<videoIn, imuData, packetIdx, key, window, waited,
                 videoTaken, imuTaken, runningChecks, polls, iterations, mark>>

\* time passes inside cv2.waitKey(delay); delay <= 0 waits for a key forever
WaitKeyTick ==
  /\ pc = "waitKey"
  /\ pendingKey = NoKey
  /\ WaitKeyDelay <= 0 \/ waited < WaitKeyDelay
  /\ waited < MaxWait
  /\ waited' = waited + 1
  /\ UNCHANGED <<pc, argv, failed>>
  /\ UNCHANGED setupVars
  /\ UNCHANGED envVars
  /\ UNCHANGED <<videoIn, imuData, packetIdx, key, window, stdout,
                 videoTaken, imuTaken, runningChecks, polls, iterations, mark>>

\* cv2.waitKey returns, then `== ord('q')` decides between break and continue
WaitKeyReturn ==
  /\ pc = "waitKey"
  /\ \/ /\ pendingKey # NoKey
        /\ key' = pendingKey
     \/ /\ pendingKey = NoKey
        /\ WaitKeyDelay > 0
        /\ waited >= WaitKeyDelay
        /\ key' = NoKey
  /\ pendingKey' = NoKey
  /\ waited' = 0
  /\ polls' = polls + 1
  /\ iterations' = iterations + 1
  /\ pc' = IF IsQuit(key') THEN "exited" ELSE Succ("waitKey")
  /\ UNCHANGED <<argv, failed>>
  /\ UNCHANGED setupVars
  /\ UNCHANGED <<running, videoQ, imuQ, videoArrived, imuArrived>>
  /\ UNCHANGED <<videoIn, imuData, packetIdx, window, stdout,
                 videoTaken, imuTaken, runningChecks, mark>>

\* videoQueue.get(), imuQueue.get(), getCvFrame()/imshow() raise
Fail ==
  /\ pc \in {"getVideo", "getImu", "imshow"}
  /\ failed' = TRUE
  /\ pc' = Uncaught
  /\ UNCHANGED argv
  /\ UNCHANGED setupVars
  /\ UNCHANGED envVars
  /\ UNCHANGED loopVars

\* ---------------------------------------------------------- environment
ProduceVideo ==
  /\ Alive
  /\ running
  /\ videoQueueCreated
  /\ Len(videoQ) < QueueSize
  /\ Len(videoArrived) < MaxFrames
  /\ LET f == [seq |-> Len(videoArrived) + 1, type |-> "ImgFrame"] IN
       /\ videoQ' = QueuePut(videoQ, f)
       /\ videoArrived' = Append(videoArrived, f)
  /\ UNCHANGED <<pc, argv, failed>>
  /\ UNCHANGED setupVars
  /\ UNCHANGED <<running, imuQ, pendingKey, imuArrived>>
  /\ UNCHANGED loopVars

ProduceImu ==
  /\ Alive
  /\ running
  /\ imuQueueCreated
  /\ Len(imuQ) < QueueSize
  /\ Len(imuArrived) < MaxFrames
  /\ \E b \in Batches :
       /\ imuQ' = QueuePut(imuQ, b)
       /\ imuArrived' = Append(imuArrived, b)
  /\ UNCHANGED <<pc, argv, failed>>
  /\ UNCHANGED setupVars
  /\ UNCHANGED <<running, videoQ, pendingKey, videoArrived>>
  /\ UNCHANGED loopVars

PipelineStop ==
  /\ Alive
  /\ running
  /\ running' = FALSE
  /\ UNCHANGED <<pc, argv, failed>>
  /\ UNCHANGED setupVars
  /\ UNCHANGED <<videoQ, imuQ, pendingKey, videoArrived, imuArrived>>
  /\ UNCHANGED loopVars

PressKey ==
  /\ Alive
  /\ window # <<>>
  /\ pendingKey = NoKey
  /\ \E k \in KeyPresses : pendingKey' = k
  /\ UNCHANGED <<pc, argv, failed>>
  /\ UNCHANGED setupVars
  /\ UNCHANGED <<running, videoQ, imuQ, videoArrived, imuArrived>>
  /\ UNCHANGED loopVars

\* ------------------------------------------------------------------ Next
Next ==
  \/ Parse
  \/ CreatePipeline
  \/ CreateCamera
  \/ CreateImu
  \/ EnableHolisticReplay
  \/ CreateVideoQueue
  \/ CreateImuQueue
  \/ Start
  \/ StartFail
  \/ LoopCheck
  \/ GetVideo
  \/ GetImu
  \/ ImShow
  \/ ForNext
  \/ PrintAccel
  \/ PrintGyro
  \/ WaitKeyTick
  \/ WaitKeyReturn
  \/ Fail
  \/ ProduceVideo
  \/ ProduceImu
  \/ PipelineStop
  \/ PressKey

Spec == Init /\ [][Next]_vars

\* ------------------------------------------------------- type invariant
TypeOK ==
  /\ pc \in {"parse", "pipeline", "camRgb", "imu", "replay", "videoQueue",
             "imuQueue", "start", "check", "getVideo", "getImu", "imshow",
             "for", "printAcc", "printGyro", "waitKey", "exited", "crashed",
             "usage"}
  /\ running \in BOOLEAN /\ failed \in BOOLEAN
  /\ Len(videoQ) <= QueueSize /\ Len(imuQ) <= QueueSize
  /\ pendingKey \in KeyPresses \cup {NoKey}
  /\ key \in KeyPresses \cup {NoKey}
  /\ waited \in 0..MaxWait

\* ------------------------------------------------- helpers of the claims
IsPrefix(s, t) ==
  /\ Len(s) <= Len(t)
  /\ \A i \in 1..Len(s) : s[i] = t[i]

ExpectedLines(b) ==
  [i \in 1..(2 * Len(b)) |->
     IF i % 2 = 1
     THEN [label |-> "IMU Accelerometer: ", value |-> b[(i + 1) \div 2].acceleroMeter]
     ELSE [label |-> "IMU Gyroscope: ", value |-> b[i \div 2].gyroscope]]

RECURSIVE AllLines(_)
AllLines(bs) ==
  IF bs = <<>> THEN <<>> ELSE ExpectedLines(Head(bs)) \o AllLines(Tail(bs))

Shown(fs) ==
  [i \in 1..Len(fs) |-> [name |-> "video",
                         image |-> [seq |-> fs[i].seq, type |-> "BGR"]]]

Tail2(s, from) == [i \in 1..(Len(s) - from) |-> s[from + i]]

\* ------------------------------------------------------------------ C1
\* C1: the loop stops as soon as either exit condition is seen: the step
\* that evaluates isRunning() at the loop head leaves the loop exactly when
\* the pipeline is not running, and the step that returns from the
\* keystroke poll leaves the loop exactly when the key is 'q' (113),
\* whatever the other condition is.
C1_ExitOnEitherCondition ==
  [][ /\ (pc = "check" /\ pc' # "check")
         => pc' = IF running THEN "getVideo" ELSE "exited"
      /\ (pc = "waitKey" /\ pc' # "waitKey")
         => pc' = IF key' = 113 THEN "exited" ELSE "check"
      /\ pc' = "exited" => pc \in {"check", "waitKey", "exited"} ]_vars

\* the key alone ended the loop: the pipeline is still running
C1_Witness == pc = "exited" /\ key = 113 /\ running /\ iterations = 2

C3_EmissionMatchesBatch ==
  /\ pc \in {"for", "waitKey"}
       => /\ imuTaken # <<>>
          /\ imuData.packets = imuTaken[Len(imuTaken)]
  /\ pc = "waitKey"
       => /\ Len(stdout) - mark = 2 * Len(imuTaken[Len(imuTaken)])
          /\ Tail2(stdout, mark) = ExpectedLines(imuTaken[Len(imuTaken)])
  /\ pc = "for"
       => Tail2(stdout, mark) = ExpectedLines(SubSeq(imuData.packets, 1, packetIdx))

\* second iteration, after an empty first batch and a two-packet second one
C3_Witness ==
  /\ pc = "waitKey" /\ iterations = 1
  /\ imuTaken[1] = <<>> /\ stdout # <<>> /\ mark = 0
  /\ Len(imuData.packets) = 2 /\ imuData.packets[1] # imuData.packets[2]

\* ------------------------------------------------------------------ C4
\* C4: the path handed to enableHolisticReplay is the documented default
\* when the command line has no path and the given path otherwise; it is
\* handed over once and never changes afterwards.
C4_ReplaySource ==
  /\ enableCalls <= 1
  /\ enableCalls = 0 => replaySource = "<unset>"
  /\ enableCalls = 1
       => replaySource = IF argv = <<>> THEN "recordings/recording.tar.gz"
                         ELSE argv[Len(argv)]

C4_Witness ==
  /\ argv = <<>> /\ replaySource = "recordings/recording.tar.gz"
  /\ enableCalls = 1 /\ iterations = 1

\* ------------------------------------------------------------------ C5
\* C5: a keystroke poll never lasts more than 1 time unit, with or without
\* a key, and when it returns the loop either exits (the key is 'q') or
\* goes to the next running check.
C5_PollBounded ==
  [][ /\ waited <= 1 /\ waited' <= 1
      /\ pc' # "waitKey" => waited' = 0
      /\ (pc = "waitKey" /\ pc' # "waitKey")
           => /\ pc' \in {"exited", "check"}
              /\ pc' = "exited" <=> key' = 113
              /\ polls' = polls + 1 ]_vars

\* the poll timed out after the full wait, no key pressed
C5_Witness == pc = "check" /\ polls = 1 /\ key = -1 /\ waited = 0 /\ window # <<>>

\* ------------------------------------------------------------------ C6
\* C6: once a retrieval or the display has failed the process is dead: the
\* script takes no further step, so no retry, retrieval, display, emission
\* or poll follows.
C6_FailureTerminates ==
  [][ /\ failed' => pc' = "crashed"
      /\ failed => /\ pc' = "crashed"
                   /\ UNCHANGED <<videoTaken, imuTaken, window, stdout, polls,
                                  runningChecks, iterations, videoQ, imuQ>> ]_vars

\* a failure in the middle of the second iteration
C6_Witness ==
  /\ failed /\ pc = "crashed" /\ iterations = 1
  /\ Len(videoTaken) = 2 /\ Len(window) = 1

\* ------------------------------------------------------------------ C7
\* C7: the video retrieval of an iteration is over before its IMU retrieval
\* starts: the number of video retrievals is the number of IMU retrievals or
\* one more, and it is one more whenever the IMU retrieval is pending.
C7_VideoFirst ==
  /\ Len(videoTaken) \in {Len(imuTaken), Len(imuTaken) + 1}
  /\ pc = "getImu" => Len(videoTaken) = Len(imuTaken) + 1
  /\ pc = "getVideo" => Len(videoTaken) = Len(imuTaken)

C7_Witness == pc = "getImu" /\ Len(videoTaken) = 2 /\ Len(imuTaken) = 1

\* ------------------------------------------------------------------ C8
\* C8: while a retrieval is pending neither isRunning() nor the keystroke
\* poll is evaluated and the loop does not exit; with the queue empty the
\* script stays in get() (or dies of a failure of get()), whatever key is
\* waiting and whether or not the pipeline still runs.
C8_BlockedInGet ==
  [][ /\ pc \in {"getVideo", "getImu"}
           => /\ runningChecks' = runningChecks
              /\ polls' = polls
              /\ pc' # "exited"
      /\ (pc = "getVideo" /\ videoQ = <<>>) => pc' \in {"getVideo", "crashed"}
      /\ (pc = "getImu" /\ imuQ = <<>>) => pc' \in {"getImu", "crashed"}
      /\ (pc = "getVideo" /\ pc' \notin {"getVideo", "crashed"}) => pc' = "getImu"
      /\ (pc = "getImu" /\ pc' \notin {"getImu", "crashed"}) => pc' = "imshow" ]_vars

\* blocked on the IMU queue with 'q' waiting and the pipeline stopped
C8_Witness ==
  /\ pc = "getImu" /\ imuQ = <<>> /\ pendingKey = 113 /\ ~running
  /\ Len(videoTaken) = 2

\* ------------------------------------------------------------------ C9
\* C9: the steps of an iteration run in the order get video, get IMU, show,
\* emit, poll; so when the loop has exited, by key or by the pipeline not
\* running, every frame retrieved has been shown exactly once and every
\* batch retrieved has been printed in full.  Only a failure leaves a
\* retrieved item unshown or unprinted.
C9_ExitLeavesNothingPending ==
  /\ pc = "getImu" => Len(window) = Len(videoTaken) - 1
  /\ pc = "imshow" => /\ Len(imuTaken) = Len(videoTaken)
                      /\ Len(window) = Len(videoTaken) - 1
  /\ pc \in {"for", "printAcc", "printGyro", "waitKey"}
       => /\ Len(window) = Len(videoTaken)
          /\ polls = Len(window) - 1
  /\ pc \in {"waitKey", "check", "exited"}
       => /\ window = Shown(videoTaken)
          /\ stdout = AllLines(imuTaken)
  /\ (window # Shown(videoTaken) \/ stdout # AllLines(imuTaken))
       => pc \in {"getImu", "imshow", "for", "printAcc", "printGyro", "crashed"}

C9_Witness ==
  /\ pc = "exited" /\ key = 113
  /\ Len(window) = 2 /\ Len(stdout) >= 4

\* ----------------------------------------------------------------- C10
\* C10: start() is called once, after the replay source was handed over and
\* both output queues were created, and nothing is read from the queues and
\* isRunning() is not asked before start().
C10_ConfiguredThenStarted ==
  /\ startCalls <= 1
  /\ startCalls = 1
       => /\ enableCalls = 1 /\ replaySource # "<unset>"
          /\ videoQueueCreated /\ imuQueueCreated
          /\ camRgb.created /\ imu.created
  /\ startCalls = 0
       => /\ videoTaken = <<>> /\ imuTaken = <<>>
          /\ runningChecks = 0
          /\ ~running
          /\ pc \notin {"check", "getVideo", "getImu"}

C10_Witness ==
  /\ startCalls = 1 /\ pc = "getVideo" /\ runningChecks = 1
  /\ videoTaken = <<>> /\ replaySource = "other.tar.gz"

====
